---------------------------- MODULE Spec2Model ----------------------------
(***************************************************************************)
(* News-Scraper: link discovery (src/api/scraper.py), the threaded detail  *)
(* batch (src/api/scraper.py), the two scrape routes (src/api/index.py)    *)
(* and the sentiment aggregation (src/api/sentiment_analysis.py).          *)
(*                                                                         *)
(* Strings are sequences.  A title is a sequence of characters; a URL is a *)
(* sequence of tokens, each token standing for the piece of text it        *)
(* spells ("/news", "?q=1", ...), so that prefix tests, splitting and      *)
(* substring tests are computed on the sequence as the code computes them  *)
(* on the text.  The empty sequence is the empty string; it also stands    *)
(* for a missing attribute (None), which the code treats alike (falsy).    *)
(***************************************************************************)
EXTENDS Integers, Sequences, FiniteSets, Bags, TLC

VARIABLES
    route,            \* which route runs: "scrape" or "scrapetag"
    listing,          \* response of the main listing page: Fail or its anchors
    tags,             \* Scraper.tags
    tagPages,         \* response of the listing page of each tag, by position
    tagIdx,           \* position of the for loop of get_articles_to_scrape_by_tag
    pc,               \* position of the route handler
    articles,         \* Scraper.articles
    articlesDetails,  \* Scraper.articlesDetails
    errlog,           \* bag of logger.error messages
    jobs,             \* the executor's work items, by position in articles
    collection,       \* index.py's module-level collection: "None" or "Conn"
    dbDocs,           \* documents of the store, in insertion order
    persistErr,       \* whether the except of the persistence try block ran
    lastScraped,      \* app.last_scraped
    response,         \* what the caller of the route receives
    content,          \* data.get('content') of the record under analysis
    spc,              \* position of analyse_sentiment
    scores,           \* per-unit result of classify, 0 = not yet scored
    scorerCalls,      \* number of sid.polarity_scores calls
    result            \* return value of analyse_sentiment

vars == <<route, listing, tags, tagPages, tagIdx, pc, articles, articlesDetails,
          errlog, jobs, collection, dbDocs, persistErr, lastScraped, response,
          content, spc, scores, scorerCalls, result>>

scrapeVars == <<route, listing, tags, tagPages, tagIdx, pc, articles,
                articlesDetails, errlog, jobs, collection, dbDocs, persistErr,
                lastScraped, response>>

sentimentVars == <<content, spc, scores, scorerCalls, result>>

-----------------------------------------------------------------------------
(* Bounds of the model *)

MaxAnchors == 3

MaxTags == 2

MaxTagAnchors == 1

MaxBatch == 3

MaxContent == 6

MaxParas == 3

-----------------------------------------------------------------------------
(* Generic helpers *)

SeqsUpTo(S, n) == UNION {[1..k -> S] : k \in 0..n}

Rep(c, n) == [i \in 1..n |-> c]

RECURSIVE SumTo(_, _)
SumTo(f, n) == IF n = 0 THEN 0 ELSE f[n] + SumTo(f, n - 1)

RECURSIVE FlattenTo(_, _)
FlattenTo(f, n) == IF n = 0 THEN <<>> ELSE FlattenTo(f, n - 1) \o f[n]

\* a response: a failed request (timeout, transport error, non-2xx status,
\* unparsable body), or the elements the selector finds in the page
Fail == [ok |-> FALSE, found |-> <<>>]

Page(found) == [ok |-> TRUE, found |-> found]

-----------------------------------------------------------------------------
(* Text: characters of titles, tokens of URLs *)

Origin == "https://www.thestar.com.my"

OtherOrigin == "http://other.example"

\* tokens whose text starts with "http"
HttpTokens == {Origin, OtherOrigin}

\* tokens whose text starts with "/"
SlashTokens == {"/", "/news", "/nation", "/story-1", "/story-2", "/story-3",
                "/food", "/Food", "/lifestyle", "/tech", "/travel",
                "/business", "/entertainment", "/culture"}

\* tokens whose text starts with "#", and with "?"
FragTokens == {"#top"}

QueryTokens == {"?q=1"}

\* str.lower() of one token
LowerTok(t) == IF t = "/Food" THEN "/food" ELSE t

\* str.upper() of one character and of a text
UpperChar(c) == CASE c = "a" -> "A" [] c = "b" -> "B" [] OTHER -> c

Upper(text) == [i \in 1..Len(text) |-> UpperChar(text[i])]

\* href.startswith('http')
StartsWithHttp(href) == Len(href) > 0 /\ href[1] \in HttpTokens

\* s.split(sep)[0] for a separator that starts a token of the set seps
RECURSIVE SplitFirst(_, _)
SplitFirst(s, seps) ==
    IF s = <<>> \/ Head(s) \in seps THEN <<>>
    ELSE <<Head(s)>> \o SplitFirst(Tail(s), seps)

\* x in href.lower(), for x = "/<category>/"
ContainsSegment(href, seg) ==
    \E i \in 1..(Len(href) - 1) :
        LowerTok(href[i]) = seg /\ href[i + 1] \in SlashTokens

-----------------------------------------------------------------------------
(* Link discovery: Scraper.get_article_to_scrape *)

MinTitleLen == 15

NewsRootPath == "/news"

exclude_list == {"/lifestyle", "/food", "/tech", "/travel", "/business",
                 "/entertainment", "/culture"}

\* line 47: the basic validation that lets an anchor through
BasicValid(text, href) ==
    ~ (href = <<>> \/ text = <<>> \/ Len(text) < MinTitleLen)

\* lines 50-54: make the href absolute, then drop fragment and query
NormalizeHref(href) ==
    LET abs == IF StartsWithHttp(href) THEN href ELSE <<Origin>> \o href
    IN  SplitFirst(SplitFirst(abs, FragTokens), QueryTokens)

\* line 62: href.startswith('https://www.thestar.com.my/news/')
UnderNewsRoot(href) ==
    /\ Len(href) >= 3
    /\ href[1] = Origin
    /\ href[2] = NewsRootPath
    /\ href[3] \in SlashTokens

\* line 63: text.upper() != text
NotAllUpper(text) == Upper(text) # text

\* line 64: not any(x in href.lower() for x in exclude_list)
NoExcludedCategory(href) == ~ \E x \in exclude_list : ContainsSegment(href, x)

\* the filter without its title test
NewsFilterNoTitleTest(text, href) ==
    /\ UnderNewsRoot(href)
    /\ NoExcludedCategory(href)

\* lines 62-64: the filter an anchor must pass to become a candidate
NewsFilter(text, href) ==
    /\ UnderNewsRoot(href)
    /\ NotAllUpper(text)
    /\ NoExcludedCategory(href)

\* seen_hrefs.add(href) moved out of the if: every checked href is remembered
SeenAfterAlways(seen, href, accepted) == seen \cup {href}

\* lines 57-69: seen_hrefs after an anchor that passed the duplicate check
SeenAfter(seen, href, accepted) ==
    IF accepted THEN seen \cup {href} ELSE seen

\* lines 42-69: the for loop over found_articles
RECURSIVE ScanAnchors(_, _, _)
ScanAnchors(found, arts, seen) ==
    IF found = <<>> THEN arts
    ELSE
        LET a    == Head(found)
            rest == Tail(found)
            href == NormalizeHref(a.href)
        IN  IF ~ BasicValid(a.text, a.href) THEN ScanAnchors(rest, arts, seen)
            ELSE IF href \in seen THEN ScanAnchors(rest, arts, seen)
            ELSE LET ok == NewsFilter(a.text, href)
                 IN  ScanAnchors(rest,
                                 IF ok THEN Append(arts, <<a.text, href, "">>)
                                       ELSE arts,
                                 SeenAfter(seen, href, ok))

DiscoverErr == [op |-> "get_article_to_scrape", arg |-> <<>>]

TagErr(tag) == [op |-> "get_articles_to_scrape_by_tag", arg |-> <<tag>>]

\* get_article_to_scrape, called by the /api/scrape route
GetArticleToScrape ==
    /\ pc = "discover"
    /\ route = "scrape"
    /\ IF listing = Fail
         THEN /\ errlog' = errlog (+) SetToBag({DiscoverErr})
              /\ UNCHANGED articles
         ELSE /\ articles' = ScanAnchors(listing.found, <<>>, {})
              /\ UNCHANGED errlog
    /\ pc' = "batch"
    /\ UNCHANGED <<route, listing, tags, tagPages, tagIdx, articlesDetails, jobs,
                   collection, dbDocs, persistErr, lastScraped, response>>
    /\ UNCHANGED sentimentVars

-----------------------------------------------------------------------------
(* Link discovery: Scraper.get_articles_to_scrape_by_tag *)

\* lines 91-92: only a present, relative href is prefixed
TagHref(href) ==
    IF href # <<>> /\ ~ StartsWithHttp(href) THEN <<Origin>> \o href ELSE href

\* lines 88-93: the candidates of one tag's page
TagCandidates(found, tag) ==
    [i \in 1..Len(found) |-> <<found[i].text, TagHref(found[i].href), tag>>]

\* the try around the whole loop: a failure ends the loop
AbortAfterTagFailure(i, n) == n + 1

\* lines 78-96: where the loop goes after the request of tag i failed
AfterTagFailure(i, n) == i + 1

\* one iteration of the for loop of get_articles_to_scrape_by_tag
TagRequest ==
    /\ pc = "discover"
    /\ route = "scrapetag"
    /\ tagIdx <= Len(tags)
    /\ LET page == tagPages[tagIdx]
           next == IF page = Fail THEN AfterTagFailure(tagIdx, Len(tags))
                                  ELSE tagIdx + 1
       IN  /\ IF page = Fail
                THEN /\ errlog' = errlog (+) SetToBag({TagErr(tags[tagIdx])})
                     /\ UNCHANGED articles
                ELSE /\ articles' = articles \o TagCandidates(page.found, tags[tagIdx])
                     /\ UNCHANGED errlog
           /\ tagIdx' = next
           /\ pc' = IF next > Len(tags) THEN "batch" ELSE "discover"
    /\ UNCHANGED <<route, listing, tags, tagPages, articlesDetails, jobs,
                   collection, dbDocs, persistErr, lastScraped, response>>
    /\ UNCHANGED sentimentVars

-----------------------------------------------------------------------------
(* Content extraction: Scraper.scrape_details *)

MinParagraphLen == 10

\* A paragraph's text is a sequence of tokens, each standing for the piece
\* of text it spells; " " is white space.  No marker of line 134 spans two
\* tokens of the texts used here.

\* len() of one token
TokLen(w) ==
    CASE w = " " -> 1
      [] w \in {"The", "met", "Ten", "for"} -> 3
      [] w \in {"Prices", "chars.", "floods"} -> 6
      [] w = "rose" -> 4
      [] w = "council" -> 7
      [] w \in {"ADVERTISEMENT", "advertisement"} -> 13
      [] w \in {"subscribers", "Subscribers"} -> 11
      [] w \in {"Read also:", "read also:"} -> 10
      [] OTHER -> 0

\* str.lower() of one token
LowerWord(w) ==
    CASE w = "The" -> "the"
      [] w = "Ten" -> "ten"
      [] w = "Prices" -> "prices"
      [] w = "ADVERTISEMENT" -> "advertisement"
      [] w = "Subscribers" -> "subscribers"
      [] w = "Read also:" -> "read also:"
      [] OTHER -> w

\* line 134: the markers
BoilerplateMarkers ==
    {"advertisement", "subscribe", "read also", "related story", "watching:"}

\* x in w, for a token w and a marker x
TokContains(w, x) ==
    \/ w = x
    \/ w = "subscribers" /\ x = "subscribe"
    \/ w = "read also:" /\ x = "read also"

\* str.strip() on white space at both ends
RECURSIVE StripText(_)
StripText(raw) ==
    IF raw = <<>> THEN <<>>
    ELSE IF Head(raw) = " " THEN StripText(Tail(raw))
    ELSE IF raw[Len(raw)] = " " THEN StripText(SubSeq(raw, 1, Len(raw) - 1))
    ELSE raw

\* line 130: p.get_text(strip=True) of a paragraph holding one text node
GetText(p) == StripText(p)

\* len(text)
ParaLen(t) == SumTo([i \in 1..Len(t) |-> TokLen(t[i])], Len(t))

\* text.lower()
ParaLower(t) == [i \in 1..Len(t) |-> LowerWord(t[i])]

\* any(x in lower_text for x in [...]), line 134
HasBoilerplate(lower) ==
    \E x \in BoilerplateMarkers : \E i \in 1..Len(lower) : TokContains(lower[i], x)

\* the length test with >= for >
KeepParagraphAtLeast(t) ==
    /\ t # <<>>
    /\ ParaLen(t) >= MinParagraphLen
    /\ ~ HasBoilerplate(ParaLower(t))

\* lines 132-135: whether a paragraph's text is kept
KeepParagraph(t) ==
    /\ t # <<>>
    /\ ParaLen(t) > MinParagraphLen
    /\ ~ HasBoilerplate(ParaLower(t))

\* ' '.join(paragraphs): the kept texts with one separator between two
RECURSIVE JoinSpace(_)
JoinSpace(ps) ==
    IF ps = <<>> THEN <<>>
    ELSE IF Len(ps) = 1 THEN ps[1]
    ELSE ps[1] \o <<" ">> \o JoinSpace(Tail(ps))

\* lines 129-135: the texts of the paragraphs of story_body that are kept
KeptTexts(paras) ==
    SelectSeq([i \in 1..Len(paras) |-> GetText(paras[i])], KeepParagraph)

\* lines 111-141
ScrapeDetails(soup, name, url, tag) ==
    [ name           |-> name,
      url            |-> url,
      category       |-> IF soup.kicker # "" THEN soup.kicker ELSE "Unknown",
      published_date |-> IF soup.date # "" THEN soup.date ELSE "Unknown",
      content        |-> IF soup.hasBody
                           THEN JoinSpace(KeptTexts(soup.paras))
                           ELSE <<>>,
      tag            |-> tag ]

-----------------------------------------------------------------------------
(* The detail batch: Scraper.thread_scrape_details, get_articles_details *)

max_workers == 5

NoSoup == [kicker |-> "", date |-> "", hasBody |-> FALSE, paras |-> <<>>]

DetailErr(url) == [op |-> "get_articles_details", arg |-> url]

\* line 148: the entries the batch keeps
ValidArticle(a) == a[2] # <<>>

\* an except branch that swallows the error without logging it
LogNothing(log, url) == log

\* lines 108-109: the log after the fetch of url failed
LogDetailFailure(log, url) == log (+) SetToBag({DetailErr(url)})

\* the except branch also leaves a placeholder record
PlaceholderOnFailure(details, article) ==
    Append(details, ScrapeDetails(NoSoup, article[1], article[2], article[3]))

\* lines 108-109: articlesDetails after the fetch of an article failed
DetailsAfterFailure(details, article) == details

\* a read-modify-write that loses the slot of a concurrent append
AppendOverLast(details, rec) ==
    IF details = <<>> THEN <<rec>> ELSE [details EXCEPT ![Len(details)] = rec]

\* line 107: self.articlesDetails.append(result)
AppendResult(details, rec) == Append(details, rec)

Queued(i) == jobs[i].st = "queued"

InFlight(i) == jobs[i].st \in {"running", "fetched"}

\* executor shutdown without waiting
NoWait == TRUE

\* lines 149-150: leaving the with block waits for every submitted call
AllJobsDone == \A i \in 1..Len(jobs) : jobs[i].st \in {"done", "skipped"}

\* lines 148-150: filter the articles and submit one call per valid article
SubmitBatch ==
    /\ pc = "batch"
    /\ jobs' = [i \in 1..Len(articles) |->
                  [st   |-> IF ValidArticle(articles[i]) THEN "queued" ELSE "skipped",
                   got  |-> "none",
                   soup |-> NoSoup]]
    /\ pc' = "pool"
    /\ UNCHANGED <<route, listing, tags, tagPages, tagIdx, articles, articlesDetails,
                   errlog, collection, dbDocs, persistErr, lastScraped, response>>
    /\ UNCHANGED sentimentVars

\* a worker thread of the pool takes the oldest queued call
WorkerTake(i) ==
    /\ Queued(i)
    /\ \A j \in 1..(i - 1) : ~ Queued(j)
    /\ Cardinality({j \in 1..Len(jobs) : InFlight(j)}) < max_workers
    /\ jobs' = [jobs EXCEPT ![i].st = "running"]
    /\ UNCHANGED <<route, listing, tags, tagPages, tagIdx, pc, articles,
                   articlesDetails, errlog, collection, dbDocs, persistErr,
                   lastScraped, response>>
    /\ UNCHANGED sentimentVars

\* lines 103-106 and 108-109: the request fails and the except branch logs it
WorkerFetchFails(i) ==
    /\ jobs[i].st = "running"
    /\ errlog' = LogDetailFailure(errlog, articles[i][2])
    /\ articlesDetails' = DetailsAfterFailure(articlesDetails, articles[i])
    /\ jobs' = [jobs EXCEPT ![i].st = "done", ![i].got = "fail"]
    /\ UNCHANGED <<route, listing, tags, tagPages, tagIdx, pc, articles,
                   collection, dbDocs, persistErr, lastScraped, response>>
    /\ UNCHANGED sentimentVars

\* lines 103-106: the request succeeds, the page is parsed and extracted
WorkerFetchOk(i, soup) ==
    /\ jobs[i].st = "running"
    /\ jobs' = [jobs EXCEPT ![i].st = "fetched", ![i].got = "ok", ![i].soup = soup]
    /\ UNCHANGED <<route, listing, tags, tagPages, tagIdx, pc, articles,
                   articlesDetails, errlog, collection, dbDocs, persistErr,
                   lastScraped, response>>
    /\ UNCHANGED sentimentVars

JobResult(i) ==
    ScrapeDetails(jobs[i].soup, articles[i][1], articles[i][2], articles[i][3])

\* line 107: the worker appends its result to the shared list
WorkerAppend(i) ==
    /\ jobs[i].st = "fetched"
    /\ articlesDetails' = AppendResult(articlesDetails, JobResult(i))
    /\ jobs' = [jobs EXCEPT ![i].st = "done"]
    /\ UNCHANGED <<route, listing, tags, tagPages, tagIdx, pc, articles,
                   errlog, collection, dbDocs, persistErr, lastScraped, response>>
    /\ UNCHANGED sentimentVars

\* lines 149-150: thread_scrape_details returns
JoinBatch ==
    /\ pc = "pool"
    /\ AllJobsDone
    /\ pc' = "persist"
    /\ UNCHANGED <<route, listing, tags, tagPages, tagIdx, articles, articlesDetails,
                   errlog, jobs, collection, dbDocs, persistErr, lastScraped,
                   response>>
    /\ UNCHANGED sentimentVars

-----------------------------------------------------------------------------
(* The scrape routes: server_scrape_news, get_scraped_data_by_tag *)

DbMissingErr == [op |-> "Database connection not established", arg |-> <<>>]

DbErr == [op |-> "Error updating database", arg |-> <<>>]

\* UpdateOne({"name": name}, {"$set": data}, upsert=True) on the store
UpsertByName(docs, d) ==
    IF \E k \in 1..Len(docs) : docs[k].name = d.name
      THEN [k \in 1..Len(docs) |-> IF docs[k].name = d.name THEN d ELSE docs[k]]
      ELSE Append(docs, d)

\* the first n operations of an ordered bulk write
RECURSIVE BulkUpsert(_, _, _)
BulkUpsert(docs, recs, n) ==
    IF n = 0 THEN docs ELSE UpsertByName(BulkUpsert(docs, recs, n - 1), recs[n])

HasTag(tagList, t) == \E k \in 1..Len(tagList) : tagList[k] = t

\* index.py lines 78-89 and 217-226: the try block around the bulk upsert.
\* applied = the operations the store applied; fewer than all means
\* bulk_write raised.
PersistScraped(applied) ==
    /\ pc = "persist"
    /\ applied \in 0..Len(articlesDetails)
    /\ IF route = "scrape" /\ collection = "None"
         THEN /\ applied = 0
              /\ errlog' = errlog (+) SetToBag({DbMissingErr})
              /\ UNCHANGED <<dbDocs, persistErr>>
         ELSE IF articlesDetails = <<>>
         THEN /\ applied = 0
              /\ UNCHANGED <<errlog, dbDocs, persistErr>>
         ELSE IF collection = "None"
         THEN \* collection.bulk_write on None raises AttributeError
              /\ applied = 0
              /\ errlog' = errlog (+) SetToBag({DbErr})
              /\ persistErr' = TRUE
              /\ UNCHANGED dbDocs
         ELSE /\ dbDocs' = BulkUpsert(dbDocs, articlesDetails, applied)
              /\ IF applied = Len(articlesDetails)
                   THEN UNCHANGED <<errlog, persistErr>>
                   ELSE /\ errlog' = errlog (+) SetToBag({DbErr})
                        /\ persistErr' = TRUE
    /\ pc' = "respond"
    /\ UNCHANGED <<route, listing, tags, tagPages, tagIdx, articles, articlesDetails,
                   jobs, collection, lastScraped, response>>
    /\ UNCHANGED sentimentVars

OkResponse(body) == [status |-> 200, body |-> body]

\* handle_exception, index.py lines 34-40
ErrorResponse == [status |-> 500, body |-> <<>>]

\* index.py lines 91-104: the result of /api/scrape; findOk = collection.find()
\* returns
RespondScrape(findOk) ==
    /\ pc = "respond"
    /\ route = "scrape"
    /\ lastScraped' = articlesDetails
    /\ IF collection # "None"
         THEN response' = IF findOk THEN OkResponse(dbDocs) ELSE ErrorResponse
         ELSE /\ findOk
              /\ response' = OkResponse(articlesDetails)
    /\ pc' = "done"
    /\ UNCHANGED <<route, listing, tags, tagPages, tagIdx, articles, articlesDetails,
                   errlog, jobs, collection, dbDocs, persistErr>>
    /\ UNCHANGED sentimentVars

InTagList(d) == HasTag(tags, d.tag)

\* index.py lines 228-237: the result of /api/scrapetag=<tags>
RespondScrapeTag(findOk) ==
    /\ pc = "respond"
    /\ route = "scrapetag"
    /\ IF collection # "None"
         THEN response' = IF findOk THEN OkResponse(SelectSeq(dbDocs, InTagList))
                                    ELSE ErrorResponse
         ELSE /\ findOk
              /\ response' = OkResponse(SelectSeq(articlesDetails, InTagList))
    /\ pc' = "done"
    /\ UNCHANGED <<route, listing, tags, tagPages, tagIdx, articles, articlesDetails,
                   errlog, jobs, collection, dbDocs, persistErr, lastScraped>>
    /\ UNCHANGED sentimentVars

-----------------------------------------------------------------------------
(* Inputs of discovery *)

TitleA == <<"A">> \o Rep("a", MinTitleLen)

TitleB == <<"B">> \o Rep("b", MinTitleLen - 1)

TitleUpper == Rep("A", MinTitleLen + 1)

TitleDigits == Rep("1", MinTitleLen + 1)

TitleShort == <<"A">> \o Rep("a", MinTitleLen - 2)

Story1 == <<"/news", "/nation", "/story-1">>

Story2 == <<"/news", "/nation", "/story-2">>

Story3 == <<"/news", "/nation", "/story-3">>

Anchor(text, href) == [text |-> text, href |-> href]

\* anchors a main listing page may hold
AnchorPool ==
    { Anchor(TitleA, Story1),
      Anchor(TitleB, <<Origin>> \o Story1 \o <<"?q=1">>),
      Anchor(TitleUpper, Story1 \o <<"#top">>),
      Anchor(TitleA, Story2),
      Anchor(TitleB, <<"/news", "/Food", "/story-1">>),
      Anchor(TitleA, <<"/food", "/story-1">>),
      Anchor(TitleA, <<OtherOrigin>> \o Story1),
      Anchor(TitleShort, Story2),
      Anchor(TitleDigits, Story2),
      Anchor(TitleA, <<>>),
      Anchor(<<>>, Story2) }

\* anchors a tag's listing page may hold
TagAnchorPool ==
    { Anchor(TitleA, Story1),
      Anchor(TitleB, <<Origin>> \o Story1),
      Anchor(TitleA, <<>>) }

TagPool == {"t1", "t2"}

Listings == {Fail} \cup {Page(f) : f \in SeqsUpTo(AnchorPool, MaxAnchors)}

TagListings == {Fail} \cup {Page(f) : f \in SeqsUpTo(TagAnchorPool, MaxTagAnchors)}

TagLists == SeqsUpTo(TagPool, MaxTags) \ {<<>>}

InitScraper ==
    /\ tagIdx = 1
    /\ pc = "discover"
    /\ articles = <<>>
    /\ articlesDetails = <<>>
    /\ errlog = EmptyBag
    /\ jobs = <<>>
    /\ dbDocs = <<>>
    /\ persistErr = FALSE
    /\ lastScraped = <<>>
    /\ response = [status |-> 0, body |-> <<>>]

InitSentimentIdle ==
    /\ content = <<>>
    /\ spc = "done"
    /\ scores = <<>>
    /\ scorerCalls = 0
    /\ result = [weighted_sum |-> 0, overall_sentiment |-> "NEUTRAL"]

InitDiscover ==
    /\ InitScraper
    /\ InitSentimentIdle
    /\ collection = "Conn"
    /\ \/ /\ route = "scrape"
          /\ listing \in Listings
          /\ tags = <<>>
          /\ tagPages = <<>>
       \/ /\ route = "scrapetag"
          /\ listing = Fail
          /\ tags \in TagLists
          /\ tagPages \in [1..Len(tags) -> TagListings]

NextDiscover == GetArticleToScrape \/ TagRequest

SpecDiscover == InitDiscover /\ [][NextDiscover]_vars

-----------------------------------------------------------------------------
(* The scrape routes from request to response *)

\* paragraphs a story body may hold
ParaCouncil == <<"The", " ", "council", " ", "met">>

ParaPrices == <<" ", "Prices", " ", "rose", " ">>

ParaTenChars == <<" ", "Ten", " ", "chars.", " ">>

ParaAdvert == <<"ADVERTISEMENT", " ", "floods">>

ParaSubscribers == <<"Prices", " ", "for", " ", "Subscribers">>

ParaReadAlso == <<"Read also:", " ", "The", " ", "floods">>

ParaBlank == <<" ">>

ParaEmpty == <<>>

\* pages a detail request may return
SoupFull ==
    [kicker |-> "Nation", date |-> "Monday, 16 Feb 2026", hasBody |-> TRUE,
     paras |-> <<ParaCouncil, ParaAdvert, ParaTenChars, ParaPrices>>]

Soups == {SoupFull, NoSoup}

\* anchors of the main listing page that the route runs are drawn from
RouteAnchorPool ==
    { Anchor(TitleA, Story1), Anchor(TitleA, Story2), Anchor(TitleB, Story3) }

RouteListings == {Fail} \cup {Page(f) : f \in SeqsUpTo(RouteAnchorPool, MaxBatch)}

\* anchors of a tag's listing page that the route runs are drawn from
RouteTagAnchorPool == { Anchor(TitleA, Story1), Anchor(TitleB, <<>>) }

RouteTagListings ==
    {Fail} \cup {Page(f) : f \in SeqsUpTo(RouteTagAnchorPool, MaxBatch)}

TotalFound(pages) == SumTo([i \in 1..Len(pages) |-> Len(pages[i].found)], Len(pages))

\* tags.split('&') of the two requests the model makes
RouteTagLists == { <<"t1">>, <<"t1", "t2">> }

Init ==
    /\ InitScraper
    /\ InitSentimentIdle
    /\ collection \in {"None", "Conn"}
    /\ \/ /\ route = "scrape"
          /\ listing \in RouteListings
          /\ tags = <<>>
          /\ tagPages = <<>>
       \/ /\ route = "scrapetag"
          /\ listing = Fail
          /\ tags \in RouteTagLists
          /\ tagPages \in [1..Len(tags) -> RouteTagListings]
          /\ TotalFound(tagPages) <= MaxBatch

Next ==
    \/ GetArticleToScrape
    \/ TagRequest
    \/ SubmitBatch
    \/ \E i \in 1..Len(jobs) : WorkerTake(i)
    \/ \E i \in 1..Len(jobs) : WorkerFetchFails(i)
    \/ \E i \in 1..Len(jobs) : \E soup \in Soups : WorkerFetchOk(i, soup)
    \/ \E i \in 1..Len(jobs) : WorkerAppend(i)
    \/ JoinBatch
    \/ \E applied \in 0..Len(articlesDetails) : PersistScraped(applied)
    \/ \E findOk \in BOOLEAN : RespondScrape(findOk)
    \/ \E findOk \in BOOLEAN : RespondScrapeTag(findOk)

Spec == Init /\ [][Next]_vars

-----------------------------------------------------------------------------
(* Detail fetch and extraction of one candidate, over the pages it may get *)

ParaPool ==
    { ParaCouncil, ParaPrices, ParaTenChars, ParaAdvert, ParaSubscribers,
      ParaReadAlso, ParaBlank, ParaEmpty }

ExtractSoups ==
    { [kicker |-> kd[1], date |-> kd[2], hasBody |-> TRUE, paras |-> ps] :
          kd \in {<<"", "">>, <<"Nation", "Monday, 16 Feb 2026">>},
          ps \in SeqsUpTo(ParaPool, MaxParas) }
    \cup { NoSoup,
           [kicker |-> "Nation", date |-> "Monday, 16 Feb 2026",
            hasBody |-> FALSE, paras |-> <<>>] }

\* the state after a discovery that found one candidate
InitExtract ==
    /\ InitSentimentIdle
    /\ collection = "Conn"
    /\ pc = "batch"
    /\ articlesDetails = <<>>
    /\ errlog = EmptyBag
    /\ jobs = <<>>
    /\ dbDocs = <<>>
    /\ persistErr = FALSE
    /\ lastScraped = <<>>
    /\ response = [status |-> 0, body |-> <<>>]
    /\ \/ /\ route = "scrape"
          /\ listing = Page(<<Anchor(TitleA, Story1 \o <<"?q=1">>)>>)
          /\ tags = <<>>
          /\ tagPages = <<>>
          /\ tagIdx = 1
          /\ articles = ScanAnchors(listing.found, <<>>, {})
       \/ /\ route = "scrapetag"
          /\ listing = Fail
          /\ tags = <<"t1">>
          /\ tagPages = <<Page(<<Anchor(TitleB, Story2)>>)>>
          /\ tagIdx = 2
          /\ articles = TagCandidates(tagPages[1].found, tags[1])

NextExtract ==
    \/ SubmitBatch
    \/ \E i \in 1..Len(jobs) : WorkerTake(i)
    \/ \E i \in 1..Len(jobs) :
          /\ jobs[i].st = "running"
          /\ \E soup \in ExtractSoups : WorkerFetchOk(i, soup)
    \/ \E i \in 1..Len(jobs) : WorkerAppend(i)

SpecExtract == InitExtract /\ [][NextExtract]_vars

-----------------------------------------------------------------------------
(* Sentiment aggregation: classify, analyse_sentiment *)

\* data['content'].split(". "): cut at each ". ", left to right, keeping
\* empty units
RECURSIVE SplitUnits(_, _)
SplitUnits(s, cur) ==
    IF s = <<>> THEN <<cur>>
    ELSE IF Len(s) >= 2 /\ s[1] = "." /\ s[2] = " "
         THEN <<cur>> \o SplitUnits(SubSeq(s, 3, Len(s)), <<>>)
         ELSE SplitUnits(Tail(s), Append(cur, Head(s)))

\* the lexicon: valence of one character, in tenths
Valence(c) == CASE c = "g" -> 6 [] c = "b" -> -6 [] OTHER -> 0

RECURSIVE RawValence(_)
RawValence(unit) ==
    IF unit = <<>> THEN 0 ELSE Valence(Head(unit)) + RawValence(Tail(unit))

\* sid.polarity_scores(data)['compound']: a score in [-1, 1], here in tenths
Compound(unit) ==
    LET raw == RawValence(unit)
    IN  IF raw > 10 THEN 10 ELSE IF raw < -10 THEN -10 ELSE raw

\* lines 22-26
Classify(unit) ==
    [scored |-> TRUE,
     label  |-> IF Compound(unit) >= 0 THEN "POSITIVE" ELSE "NEGATIVE",
     score  |-> Compound(unit)]

NotScored == [scored |-> FALSE, label |-> "", score |-> 0]

\* the mean of the scores instead of their sum
MeanOfScores(scoreList) ==
    SumTo([i \in 1..Len(scoreList) |-> scoreList[i].score], Len(scoreList))
        \div Len(scoreList)

\* line 45: weighted_sum = sum(scores)
WeightedSum(scoreList) ==
    SumTo([i \in 1..Len(scoreList) |-> scoreList[i].score], Len(scoreList))

\* lines 47-53
OverallSentiment(weighted_sum) ==
    IF weighted_sum = 0 THEN "NEUTRAL"
    ELSE IF weighted_sum > 0 THEN "POSITIVE"
    ELSE "NEGATIVE"

\* lines 29-36: the early return, or one classify coroutine per unit
AnalyseStart ==
    /\ spc = "start"
    /\ IF content = <<>>
         THEN /\ result' = [weighted_sum |-> 0, overall_sentiment |-> "NEUTRAL"]
              /\ spc' = "done"
              /\ UNCHANGED scores
         ELSE /\ scores' = [i \in 1..Len(SplitUnits(content, <<>>)) |-> NotScored]
              /\ spc' = "gather"
              /\ UNCHANGED result
    /\ UNCHANGED <<content, scorerCalls>>
    /\ UNCHANGED scrapeVars

\* line 38: asyncio.gather runs the coroutine of unit i
ClassifyUnit(i) ==
    /\ spc = "gather"
    /\ ~ scores[i].scored
    /\ scores' = [scores EXCEPT ![i] = Classify(SplitUnits(content, <<>>)[i])]
    /\ scorerCalls' = scorerCalls + 1
    /\ UNCHANGED <<content, spc, result>>
    /\ UNCHANGED scrapeVars

\* lines 38-58: gather returns the results in the order of the units
Aggregate ==
    /\ spc = "gather"
    /\ \A i \in 1..Len(scores) : scores[i].scored
    /\ LET weighted_sum == WeightedSum(scores)
       IN  result' = [weighted_sum      |-> weighted_sum,
                      overall_sentiment |-> OverallSentiment(weighted_sum)]
    /\ spc' = "done"
    /\ UNCHANGED <<content, scores, scorerCalls>>
    /\ UNCHANGED scrapeVars

ContentChars == {"g", "b", ".", " "}

InitSentiment ==
    /\ InitScraper
    /\ route = "scrape"
    /\ listing = Fail
    /\ tags = <<>>
    /\ tagPages = <<>>
    /\ collection = "Conn"
    /\ content \in SeqsUpTo(ContentChars, MaxContent)
    /\ spc = "start"
    /\ scores = <<>>
    /\ scorerCalls = 0
    /\ result = [weighted_sum |-> 0, overall_sentiment |-> ""]

NextSentiment ==
    \/ AnalyseStart
    \/ \E i \in 1..Len(scores) : ClassifyUnit(i)
    \/ Aggregate

SpecSentiment == InitSentiment /\ [][NextSentiment]_vars

-----------------------------------------------------------------------------
(* Properties of discovery *)

Discovered == pc = "batch"

CandTitle(c) == c[1]

CandUrl(c) == c[2]

CandTag(c) == c[3]

\* the elements of seq at the positions of S, in increasing order
RECURSIVE PickInOrder(_, _, _)
PickInOrder(seq, S, n) ==
    IF n = 0 THEN <<>>
    ELSE PickInOrder(seq, S, n - 1) \o (IF n \in S THEN <<seq[n]>> ELSE <<>>)

\* the candidate each anchor of the main listing would make
AsCandidates(found) ==
    [i \in 1..Len(found) |-> <<found[i].text, NormalizeHref(found[i].href), "">>]

Passes(found, i) ==
    /\ BasicValid(found[i].text, found[i].href)
    /\ NewsFilter(found[i].text, NormalizeHref(found[i].href))

SameUrl(found, i, j) == NormalizeHref(found[i].href) = NormalizeHref(found[j].href)

\* C1: after a discovery pass, unscoped or tag-scoped, no two candidates of
\* Scraper.articles that have a URL share the same normalized URL.
C1_NoDuplicateUrls ==
    Discovered =>
        \A i, j \in 1..Len(articles) :
            (i # j /\ CandUrl(articles[i]) # <<>> /\ CandUrl(articles[j]) # <<>>)
                => NormalizeHref(CandUrl(articles[i])) # NormalizeHref(CandUrl(articles[j]))

\* C6: every candidate of unscoped discovery has a title that is not all
\* upper-case and a URL under the news root without an excluded category
\* segment; an anchor with an all-upper-case title or an excluded segment in
\* its path makes no candidate.
C6_UnscopedFilter ==
    (Discovered /\ route = "scrape") =>
        /\ \A k \in 1..Len(articles) :
              LET c == articles[k]
              IN  /\ Upper(CandTitle(c)) # CandTitle(c)
                  /\ Len(CandUrl(c)) >= 3
                  /\ SubSeq(CandUrl(c), 1, 2) = <<Origin, "/news">>
                  /\ CandUrl(c)[3] \in SlashTokens
                  /\ \A x \in exclude_list : ~ ContainsSegment(CandUrl(c), x)
        /\ \A i \in 1..Len(listing.found) :
              LET a == listing.found[i]
              IN  (\/ Upper(a.text) = a.text
                   \/ \E x \in exclude_list :
                        ContainsSegment(NormalizeHref(a.href), x))
                  => \A k \in 1..Len(articles) :
                        articles[k] # AsCandidates(listing.found)[i]

C6_Witness ==
    /\ Discovered
    /\ route = "scrape"
    /\ articles # <<>>
    /\ \E i \in 1..Len(listing.found) :
          /\ BasicValid(listing.found[i].text, listing.found[i].href)
          /\ Upper(listing.found[i].text) = listing.found[i].text
    /\ \E i \in 1..Len(listing.found) :
          /\ BasicValid(listing.found[i].text, listing.found[i].href)
          /\ UnderNewsRoot(NormalizeHref(listing.found[i].href))
          /\ ~ NoExcludedCategory(NormalizeHref(listing.found[i].href))

\* what each tag's request contributes
TagContribution ==
    [i \in 1..Len(tags) |->
        IF tagPages[i].ok THEN TagCandidates(tagPages[i].found, tags[i]) ELSE <<>>]

\* C8: a failed discovery request is logged and contributes no candidate; in
\* tag-scoped discovery every other tag's request is still made and its
\* candidates are kept, wherever the failing tag stands in the list.
C8_DiscoveryFailureIsolated ==
    Discovered =>
        /\ route = "scrape" =>
              /\ ~ listing.ok => articles = <<>>
              /\ CopiesIn(DiscoverErr, errlog) = (IF listing.ok THEN 0 ELSE 1)
        /\ route = "scrapetag" =>
              /\ articles = FlattenTo(TagContribution, Len(tags))
              /\ \A t \in TagPool :
                    CopiesIn(TagErr(t), errlog) =
                        Cardinality({i \in 1..Len(tags) :
                                        tags[i] = t /\ ~ tagPages[i].ok})

C8_Witness ==
    /\ Discovered
    /\ route = "scrapetag"
    /\ Len(tags) >= 2
    /\ ~ tagPages[1].ok
    /\ tagPages[2].ok
    /\ tagPages[2].found # <<>>
    /\ articles = TagCandidates(tagPages[2].found, tags[2])
    /\ BagCardinality(errlog) = 1

\* C9 as stated: among the anchors that pass the basic checks, only the
\* first with a given normalized URL can become a candidate, whether or not
\* the filters accept it.
C9_FirstOccurrenceWins ==
    (Discovered /\ route = "scrape" /\ listing.ok) =>
        LET found == listing.found
            first == {i \in 1..Len(found) :
                        /\ Passes(found, i)
                        /\ \A j \in 1..(i - 1) :
                              ~ (BasicValid(found[j].text, found[j].href)
                                 /\ SameUrl(found, i, j))}
        IN  articles = PickInOrder(AsCandidates(found), first, Len(found))

\* C9 as amended: among the anchors sharing a normalized URL, the first that
\* passes the basic checks and the filters becomes the candidate; an earlier
\* anchor the filters rejected does not keep a later one out.
C9_FirstAcceptedWins ==
    (Discovered /\ route = "scrape" /\ listing.ok) =>
        LET found == listing.found
            first == {i \in 1..Len(found) :
                        /\ Passes(found, i)
                        /\ \A j \in 1..(i - 1) :
                              ~ (Passes(found, j) /\ SameUrl(found, i, j))}
        IN  articles = PickInOrder(AsCandidates(found), first, Len(found))

C9_Witness ==
    /\ Discovered
    /\ route = "scrape"
    /\ listing.ok
    /\ \E i, j \in 1..Len(listing.found) :
          /\ i < j
          /\ SameUrl(listing.found, i, j)
          /\ BasicValid(listing.found[i].text, listing.found[i].href)
          /\ ~ Passes(listing.found, i)
          /\ Passes(listing.found, j)
          /\ \E k \in 1..Len(articles) :
                articles[k] = AsCandidates(listing.found)[j]
    /\ \E i, j \in 1..Len(listing.found) :
          /\ i < j
          /\ SameUrl(listing.found, i, j)
          /\ Passes(listing.found, i)
          /\ Passes(listing.found, j)
          /\ listing.found[i].text # listing.found[j].text

-----------------------------------------------------------------------------
(* Properties of the batch and of the routes *)

\* thread_scrape_details has returned to the route
PostBatch == pc \in {"persist", "respond", "done"}

Occurrences(seq, x) == Cardinality({k \in 1..Len(seq) : seq[k] = x})

RecordsWithUrl(u) == Cardinality({k \in 1..Len(articlesDetails) : articlesDetails[k].url = u})

CandidatesWithUrl(u) == Cardinality({i \in 1..Len(articles) : CandUrl(articles[i]) = u})

\* the records made from candidate c
RecordsOf(c) ==
    Cardinality({k \in 1..Len(articlesDetails) :
                    /\ articlesDetails[k].name = CandTitle(c)
                    /\ articlesDetails[k].url = CandUrl(c)
                    /\ articlesDetails[k].tag = CandTag(c)})

FetchedOk(i) == jobs[i].st = "done" /\ jobs[i].got = "ok"

FetchFailed(i) == jobs[i].st = "done" /\ jobs[i].got = "fail"

\* C2 as stated: a batch makes no more records than there are candidates,
\* and every candidate without a record has its logged failure.
C2_EveryDropLogged ==
    /\ Len(articlesDetails) <= Len(articles)
    /\ PostBatch =>
          \A i \in 1..Len(articles) :
              LET u == CandUrl(articles[i])
              IN  RecordsWithUrl(u) + CopiesIn(DetailErr(u), errlog)
                      = CandidatesWithUrl(u)

\* C2 as amended: a batch makes no more records than there are candidates,
\* and every candidate that has a URL and no record has its logged failure;
\* a candidate without a URL is left out of the batch and nothing is logged
\* for it.
C2_EveryFetchedDropLogged ==
    /\ Len(articlesDetails) <= Len(articles)
    /\ PostBatch =>
          \A i \in 1..Len(articles) :
              LET u == CandUrl(articles[i])
              IN  IF u # <<>>
                    THEN RecordsWithUrl(u) + CopiesIn(DetailErr(u), errlog)
                             = CandidatesWithUrl(u)
                    ELSE RecordsWithUrl(u) = 0 /\ CopiesIn(DetailErr(u), errlog) = 0

C2_Witness ==
    /\ PostBatch
    /\ \E i, j, k \in 1..Len(articles) :
          /\ CandUrl(articles[i]) = <<>>
          /\ FetchFailed(j)
          /\ FetchedOk(k)
    /\ Len(articlesDetails) < Len(articles)

\* C3: a candidate whose fetch fails makes no record, and every candidate
\* whose fetch succeeds has its record, whatever the other candidates of the
\* batch did and in whatever order the workers ran.
C3_FailureIsolated ==
    \A i \in 1..Len(jobs) :
        /\ (FetchFailed(i)
              /\ ~ \E j \in 1..Len(jobs) :
                      articles[j] = articles[i] /\ jobs[j].got = "ok")
           => RecordsOf(articles[i]) = 0
        /\ FetchedOk(i) => Occurrences(articlesDetails, JobResult(i)) >= 1
        /\ (PostBatch /\ ValidArticle(articles[i])) => (FetchFailed(i) \/ FetchedOk(i))

C3_Witness ==
    /\ PostBatch
    /\ Len(jobs) = 3
    /\ FetchedOk(1)
    /\ FetchFailed(2)
    /\ FetchedOk(3)
    /\ Len(articlesDetails) = 2
    /\ articlesDetails[1] = JobResult(3)

\* C4: the caller of a scrape route always receives a result list with a
\* success status, and after a persistence error the list still holds the
\* records that were fetched.
C4_AlwaysResultList ==
    pc = "done" =>
        /\ response.status = 200
        /\ persistErr =>
              \A k \in 1..Len(articlesDetails) :
                  Occurrences(response.body, articlesDetails[k]) >= 1

\* C7: once thread_scrape_details has returned, and so whenever the bulk
\* upsert or the response is made, every candidate of the batch has appended
\* its record or been dropped; none is queued or in flight.
C7_BatchCompleteOnReturn ==
    (PostBatch \/ dbDocs # <<>> \/ response.status # 0) =>
        /\ Len(jobs) = Len(articles)
        /\ \A i \in 1..Len(jobs) :
              /\ jobs[i].st \notin {"queued", "running", "fetched"}
              /\ ValidArticle(articles[i]) => jobs[i].st = "done"
        /\ Len(articlesDetails) + BagCardinality(errlog)
              >= Cardinality({i \in 1..Len(articles) : ValidArticle(articles[i])})

C7_Witness ==
    /\ pc = "done"
    /\ dbDocs # <<>>
    /\ response.status = 200
    /\ Len(articlesDetails) >= 2
    /\ \E i \in 1..Len(jobs) : FetchFailed(i)

\* C10: for every interleaving of the workers the results collection holds
\* exactly one record for each candidate whose fetch and extraction
\* succeeded: no append is lost and none is made twice.
C10_NoRecordLostOrDuplicated ==
    /\ \A i \in 1..Len(jobs) :
          FetchedOk(i) =>
              Occurrences(articlesDetails, JobResult(i))
                  = Cardinality({j \in 1..Len(jobs) :
                                    FetchedOk(j) /\ JobResult(j) = JobResult(i)})
    /\ Len(articlesDetails) = Cardinality({i \in 1..Len(jobs) : FetchedOk(i)})

C10_Witness ==
    /\ PostBatch
    /\ Len(jobs) = 3
    /\ \A i \in 1..3 : FetchedOk(i)
    /\ articlesDetails = <<JobResult(3), JobResult(1), JobResult(2)>>

-----------------------------------------------------------------------------
(* Properties of the sentiment aggregation *)

Units == SplitUnits(content, <<>>)

\* C5: for non-empty content weighted_sum is the sum of the compound scores
\* of the units of content split on ". ", not divided by their number, and
\* overall_sentiment is NEUTRAL, POSITIVE or NEGATIVE as that sum is zero,
\* above or below it, in whatever order the units were scored; for empty
\* content the result is 0 and NEUTRAL and no unit is scored.
C5_SumAndSign ==
    spc = "done" =>
        IF content = <<>>
          THEN /\ result = [weighted_sum |-> 0, overall_sentiment |-> "NEUTRAL"]
               /\ scorerCalls = 0
          ELSE LET total == SumTo([i \in 1..Len(Units) |-> Compound(Units[i])],
                                  Len(Units))
               IN  /\ result.weighted_sum = total
                   /\ result.overall_sentiment = "NEUTRAL" <=> total = 0
                   /\ result.overall_sentiment = "POSITIVE" <=> total > 0
                   /\ result.overall_sentiment = "NEGATIVE" <=> total < 0
                   /\ scorerCalls = Len(Units)

C5_Witness ==
    /\ spc = "done"
    /\ Len(Units) = 2
    /\ Compound(Units[1]) > 0
    /\ Compound(Units[2]) < 0
    /\ result = [weighted_sum |-> 0, overall_sentiment |-> "NEUTRAL"]

-----------------------------------------------------------------------------
(* Properties of the content extraction *)

\* the trimmed texts of the paragraphs of a page's story body
TrimmedTexts(soup) == [k \in 1..Len(soup.paras) |-> StripText(soup.paras[k])]

\* the positions of the paragraphs whose trimmed text is longer than 10
\* characters and holds no marker, whatever its case
RetainedParagraphs(soup) ==
    {k \in 1..Len(soup.paras) :
        LET t == TrimmedTexts(soup)[k]
        IN  /\ SumTo([i \in 1..Len(t) |-> TokLen(t[i])], Len(t)) > 10
            /\ \A x \in BoilerplateMarkers :
                  \A i \in 1..Len(t) : ~ TokContains(LowerWord(t[i]), x)}

=============================================================================
